---------------------------- MODULE Spec2Model ----------------------------
(***************************************************************************)
(* Regions of interest in a 2D matrix (maad/rois/rois_2d.py):              *)
(* create_mask (double threshold, relative or absolute), select_rois       *)
(* (connected components filtered by area, with their bounding boxes) and  *)
(* rois_to_imblobs (bounding boxes painted on a canvas).                   *)
(*                                                                         *)
(* An array is a record [h, w, a]: a maps each pixel <<y, x>> (0-based,    *)
(* row then column) to its value.  A boolean array holds 0 and 1, as numpy *)
(* treats it in arithmetic.  A DataFrame is a record of its column names   *)
(* (in order), their dtypes, its number of rows and one sequence per       *)
(* column.                                                                 *)
(***************************************************************************)
EXTENDS Integers, Sequences, FiniteSets, TLC

VARIABLES
    op,        \* the function called last ("none" before any call)
    mode,      \* create_mask: mode_bin
    kwargs,    \* create_mask: the keyword arguments the caller supplied
    params,    \* the two numeric arguments of the call (<<>> is None)
    scale,     \* create_mask: im and the absolute thresholds count 1 / scale
    path,      \* create_mask, relative: the branch taken
    im,        \* create_mask: its argument im
    im_bin,    \* create_mask: its result; select_rois: its argument
    im_rois,   \* select_rois: the labelled image it returns
    rois,      \* select_rois: the table it returns; rois_to_imblobs: its argument
    canvas,    \* rois_to_imblobs: the caller's array im_blobs, after the call
    im_blobs,  \* rois_to_imblobs: the array it returns
    err,       \* the exception the call raised ("" when it returned)
    src,       \* select_rois: where its argument came from
    rois0      \* select_rois: the table the caller held before the call

vars == <<op, mode, kwargs, params, scale, path, im, im_bin, im_rois, rois,
          canvas, im_blobs, err, src, rois0>>

---------------------------------------------------------------------------
(* Bounds of the inputs *)

\* the largest number of pixels of an input matrix
MaxArea == 4
\* the largest value of a pixel and of a threshold
MaxVal == 2
\* the largest number of pixels of a binary mask a caller supplies
MaxMaskArea == 6
\* the largest number of pixels of a canvas a caller supplies
MaxCanvasArea == 4
\* the largest min_roi / max_roi a caller gives
MaxRoi == 3
\* the largest number of rows of a table a caller supplies
MaxRows == 2
\* the largest bin_std
MaxStd == 1

---------------------------------------------------------------------------
(* Arrays *)

Pix(h, w) == (0 .. h - 1) \X (0 .. w - 1)

Array(h, w, f) == [h |-> h, w |-> w, a |-> f]

NoArray == Array(0, 0, <<>>)

zeros(h, w) == Array(h, w, [p \in Pix(h, w) |-> 0])

Shapes(n) == {s \in (1 .. n) \X (1 .. n) : s[1] * s[2] <= n}

any(m) == \E p \in DOMAIN m.a : m.a[p] # 0

RECURSIVE SumOver(_, _)
SumOver(S, f) ==
    IF S = {} THEN 0
    ELSE LET p == CHOOSE q \in S : TRUE IN f[p] + SumOver(S \ {p}, f)

SetMin(S) == CHOOSE v \in S : \A u \in S : v <= u
SetMax(S) == CHOOSE v \in S : \A u \in S : u <= v

---------------------------------------------------------------------------
(* skimage.measure.label and regionprops, as the code calls them *)

Abs(n) == IF n < 0 THEN -n ELSE n

\* measure.label's default connectivity for a 2D array is 2: the 8 neighbours
Adjacent(p, q) == p # q /\ Abs(p[1] - q[1]) <= 1 /\ Abs(p[2] - q[2]) <= 1

RECURSIVE Flood(_, _)
Flood(S, F) ==
    LET N == {q \in F \ S : \E p \in S : Adjacent(p, q)}
    IN  IF N = {} THEN S ELSE Flood(S \cup N, F)

\* the connected pixels of the same value as p
ComponentOf(m, p) == Flood({p}, {q \in DOMAIN m.a : m.a[q] = m.a[p]})

\* the components of the pixels that are not background (0)
Components(m) == {ComponentOf(m, p) : p \in {q \in DOMAIN m.a : m.a[q] # 0}}

Raster(m, p) == p[1] * m.w + p[2]

FirstPixel(m, C) == SetMin({Raster(m, p) : p \in C})

\* labels are 1, 2, ... in the raster order of each component's first pixel
measure_label(m) ==
    LET cs == Components(m)
        rank(C) == Cardinality({D \in cs : FirstPixel(m, D) <= FirstPixel(m, C)})
    IN  Array(m.h, m.w,
              [p \in DOMAIN m.a |->
                  IF m.a[p] = 0 THEN 0
                  ELSE rank(CHOOSE C \in cs : p \in C)])

\* skimage's bbox: (min_row, min_col, max_row, max_col), half-open
bbox(coords) ==
    <<SetMin({p[1] : p \in coords}), SetMin({p[2] : p \in coords}),
      SetMax({p[1] : p \in coords}) + 1, SetMax({p[2] : p \in coords}) + 1>>

\* one region per label, in increasing order of label
regionprops(labels) ==
    LET n == IF DOMAIN labels.a = {} THEN 0
             ELSE SetMax({labels.a[p] : p \in DOMAIN labels.a})
        coords(i) == {p \in DOMAIN labels.a : labels.a[p] = i}
    IN  [i \in 1 .. n |->
            [label |-> i, coords |-> coords(i),
             area |-> Cardinality(coords(i)), bbox |-> bbox(coords(i))]]

\* region['mean_intensity'] as the fraction <<sum, area>>
mean_intensity(region, intensity) ==
    <<SumOver(region.coords, intensity.a), region.area>>

\* a faulty variant of mean_positive: >= 0
mean_nonnegative(mean) == mean[1] >= 0

\* rprops_mean_intensity > 0 (the area of a region is positive)
mean_positive(mean) == mean[1] > 0

---------------------------------------------------------------------------
(* create_mask and the two double thresholds *)

\* lines 148-163 and 287-302, the same in both modes: im_t1 and im_t2 are
\* the boolean masks im > high and im > low
hysteresis(x, im_t1, im_t2) ==
    LET im_t3 == Array(x.h, x.w, [p \in DOMAIN x.a |-> x.a[p] * im_t1.a[p]])
        conncomp_t2 == measure_label(im_t2)
        rprops == regionprops(conncomp_t2)
        ind == {i \in DOMAIN rprops :
                   mean_positive(mean_intensity(rprops[i], im_t3))}
        kept == {rprops[i].label : i \in ind}
    IN  Array(x.h, x.w,
              [p \in DOMAIN x.a |->
                  IF conncomp_t2.a[p] \in kept THEN 1 ELSE 0])

\* a faulty variant of greater: >= in the place of >
greater_or_equal(x, th, den) ==
    Array(x.h, x.w, [p \in DOMAIN x.a |-> IF x.a[p] * den >= th THEN 1 ELSE 0])

\* the boolean array x > th, where the threshold is the fraction th / den
greater(x, th, den) ==
    Array(x.h, x.w, [p \in DOMAIN x.a |-> IF x.a[p] * den > th THEN 1 ELSE 0])

_double_threshold_abs(x, bin_h, bin_l) ==
    [im_out |-> hysteresis(x, greater(x, bin_h, 1), greater(x, bin_l, 1)),
     err |-> "", path |-> "thresholds"]

\* im[np.where(im>0)]: the pixels that hold a positive value
positive(x) == {p \in DOMAIN x.a : x.a[p] > 0}

\* the k-th smallest (k from 0) of the values of x on the pixels S
kth(x, S, k) ==
    CHOOSE v \in {x.a[p] : p \in S} :
        /\ Cardinality({p \in S : x.a[p] < v}) <= k
        /\ k < Cardinality({p \in S : x.a[p] <= v})

\* 4 * np.percentile(values, 25 * q): numpy's linear interpolation between
\* the two order statistics around the position (n - 1) * q / 4
percentile4(x, S, q) ==
    LET n == Cardinality(S)
        lo == ((n - 1) * q) \div 4
        r == ((n - 1) * q) % 4
        hi == IF lo + 1 <= n - 1 THEN lo + 1 ELSE lo
    IN  4 * kth(x, S, lo) + (kth(x, S, hi) - kth(x, S, lo)) * r

\* 4 * h_th: val1 + val2, val2 the interquartile range times bin_std
h_th4(x, bin_std) ==
    LET S == positive(x)
    IN  percentile4(x, S, 3)
          + (percentile4(x, S, 3) - percentile4(x, S, 1)) * bin_std

\* 8 * l_th: h_th - h_th * bin_per, bin_per given in halves (per2 / 2)
l_th8(x, bin_std, per2) == 2 * h_th4(x, bin_std) - h_th4(x, bin_std) * per2

\* a faulty variant of is_full_of_zeros: the `not` left out
is_not_full_of_zeros(x) == any(x)

\* the test of line 121: not im.any()
is_full_of_zeros(x) == ~ any(x)

\* The outcomes of _double_threshold_rel.  With no positive value in a
\* matrix that is not full of zeros, np.percentile receives an empty array:
\* depending on the numpy release it raises IndexError, or returns nan, and
\* then no pixel is greater than a threshold.
_double_threshold_rel(x, bin_std, per2) ==
    IF is_full_of_zeros(x)
    THEN {[im_out |-> zeros(x.h, x.w), err |-> "", path |-> "zeros"]}
    ELSE IF positive(x) = {}
    THEN {[im_out |-> NoArray, err |-> "IndexError", path |-> "thresholds"],
          [im_out |-> zeros(x.h, x.w), err |-> "", path |-> "thresholds"]}
    ELSE {[im_out |-> hysteresis(x, greater(x, h_th4(x, bin_std), 4),
                                 greater(x, l_th8(x, bin_std, per2), 8)),
           err |-> "", path |-> "thresholds"]}

Vals == -1 .. MaxVal

Matrices == UNION {{Array(s[1], s[2], f) : f \in [Pix(s[1], s[2]) -> Vals]} :
                      s \in Shapes(MaxArea)}

\* the matrix of the hysteresis scenario: zeros, (2,2) = 10 and (2,3) = 3
Scenario ==
    Array(5, 5, [p \in Pix(5, 5) |->
                    IF p = <<2, 2>> THEN 10 ELSE IF p = <<2, 3>> THEN 3 ELSE 0])

\* matrices normalised to [0, 1], written in tenths: 0, 0.3 and 0.8
Normalised ==
    UNION {{Array(s[1], s[2], f) : f \in [Pix(s[1], s[2]) -> {0, 3, 8}]} :
              s \in Shapes(2)}

\* kwargs.pop(key, default): kwargs is a sequence of <<key, value>>
pop(kw, key, default) ==
    IF \E i \in DOMAIN kw : kw[i][1] = key
    THEN kw[CHOOSE i \in DOMAIN kw : kw[i][1] = key][2]
    ELSE default

\* n / 10 counted in 1 / sc, for a matrix that is written in tenths
tenths(n, sc) == (n * sc) \div 10

\* what a call of create_mask yields: the outcome out of the double
\* threshold it called with the two numeric arguments a and b
called(out, a, b) ==
    [im_out |-> out.im_out, err |-> out.err, path |-> out.path,
     used |-> <<a, b>>]

\* lines 419-422; bin_per counted in halves
mode_relative(x, kw) ==
    LET bin_std == pop(kw, "bin_std", 6)
        bin_per == pop(kw, "bin_per", 1)
    IN  {called(out, bin_std, bin_per) :
            out \in _double_threshold_rel(x, bin_std, bin_per)}

\* lines 424-428: the defaults are 0.7 and 0.3
mode_absolute(x, kw, sc) ==
    LET bin_h == pop(kw, "bin_h", tenths(7, sc))
        bin_l == pop(kw, "bin_l", tenths(3, sc))
    IN  {called(_double_threshold_abs(x, bin_h, bin_l), bin_h, bin_l)}

\* a faulty variant of mode_other: any other mode is taken as 'relative'
mode_other_as_relative(x, kw) == mode_relative(x, kw)

\* line 431 when neither branch was taken: im_bin was never assigned
mode_other(x, kw) ==
    {[im_out |-> NoArray, err |-> "UnboundLocalError", path |-> "",
      used |-> <<>>]}

create_mask(x, mode_bin, kw, sc) ==
    IF mode_bin = "relative" THEN mode_relative(x, kw)
    ELSE IF mode_bin = "absolute" THEN mode_absolute(x, kw, sc)
    ELSE mode_other(x, kw)

---------------------------------------------------------------------------
(* DataFrames *)

ColumnNames == <<"labelID", "label", "min_y", "min_x", "max_y", "max_x">>

BboxColumns == {"min_y", "min_x", "max_y", "max_x"}

Range(f) == {f[i] : i \in DOMAIN f}

None == <<>>

\* the decimal digits of n >= 0: the string numpy makes of an integer when
\* it builds an array of strings
RECURSIVE unicode(_)
unicode(n) == IF n < 10 THEN <<n>> ELSE Append(unicode(n \div 10), n % 10)

\* the integer a string of digits converts to (astype(int))
RECURSIVE astype_int(_)
astype_int(s) ==
    IF Len(s) = 1 THEN s[1]
    ELSE 10 * astype_int(SubSeq(s, 1, Len(s) - 1)) + s[Len(s)]

\* a pandas DataFrame of n rows, built from an array of strings or from an
\* empty list: every column has the dtype object; the columns it does not
\* have are empty
DataFrame(columns, n, col) ==
    [type |-> "DataFrame", columns |-> columns, index |-> n,
     dtypes |-> [i \in 1 .. Len(columns) |-> "object"],
     labelID |-> col[1], label |-> col[2], min_y |-> col[3],
     min_x |-> col[4], max_y |-> col[5], max_x |-> col[6]]

\* rois.astype({'label': str, 'min_y': int, 'min_x': int, 'max_y': int,
\* 'max_x': int}): a column of str keeps the dtype object, labelID is not
\* named
astype(t) ==
    [t EXCEPT
       !.min_y = [i \in 1 .. t.index |-> astype_int(t.min_y[i])],
       !.min_x = [i \in 1 .. t.index |-> astype_int(t.min_x[i])],
       !.max_y = [i \in 1 .. t.index |-> astype_int(t.max_y[i])],
       !.max_x = [i \in 1 .. t.index |-> astype_int(t.max_x[i])],
       !.dtypes = [i \in 1 .. Len(t.columns) |->
                      IF t.columns[i] \in BboxColumns THEN "int64"
                      ELSE "object"]]

\* the bounding box of row i, as stored
Box(t, i) == <<t.min_y[i], t.min_x[i], t.max_y[i], t.max_x[i]>>

---------------------------------------------------------------------------
(* select_rois *)

\* a faulty variant of area_selected: the bounds excluded
area_strictly_inside(area, min_roi, max_roi) ==
    area > min_roi /\ area < max_roi

\* line 590
area_selected(area, min_roi, max_roi) == area >= min_roi /\ area <= max_roi

\* a faulty variant of compensate_half_open: skimage's bound kept
keep_half_open(v) == v

\* lines 610-611: rois.max_y -= 1, rois.max_x -= 1
compensate_half_open(v) == v - 1

\* a faulty variant of keep_selected: the labelled image left whole
keep_all(labels, rois_label) == labels

\* a faulty variant of keep_selected: the kept regions renumbered 1, 2, ...
keep_renumbered(labels, rois_label) ==
    Array(labels.h, labels.w,
          [p \in DOMAIN labels.a |->
              IF labels.a[p] \in Range(rois_label)
              THEN Cardinality({l \in Range(rois_label) : l <= labels.a[p]})
              ELSE 0])

\* lines 596-597: np.isin(labels, rois_label) * labels
keep_selected(labels, rois_label) ==
    Array(labels.h, labels.w,
          [p \in DOMAIN labels.a |->
              (IF labels.a[p] \in Range(rois_label) THEN 1 ELSE 0)
                  * labels.a[p]])

\* a faulty variant of default_max_roi: the number of rows only
default_max_roi_rows(m) == m.h

\* max_roi when it is None: im_bin.shape[0] * im_bin.shape[1]
default_max_roi(m) == m.h * m.w

\* a faulty variant of zip_unknown: zip with ['unknown'], a list of one
zip_unknown_once(rois_label) ==
    [i \in 1 .. (IF Len(rois_label) > 0 THEN 1 ELSE 0) |->
        <<rois_label[i], "unknown">>]

\* list(zip(rois_label, ['unknown'] * len(rois_label)))
zip_unknown(rois_label) ==
    [i \in 1 .. Len(rois_label) |-> <<rois_label[i], "unknown">>]

\* a faulty variant of empty_rois: the empty table without its astype
empty_rois_untyped ==
    DataFrame(ColumnNames, 0, <<<<>>, <<>>, <<>>, <<>>, <<>>, <<>>>>)

\* the table when no region is selected
empty_rois ==
    astype(DataFrame(ColumnNames, 0, <<<<>>, <<>>, <<>>, <<>>, <<>>, <<>>>>))

select_rois(m, min_arg, max_arg) ==
    LET max_roi == IF max_arg = None THEN default_max_roi(m) ELSE max_arg[1]
        min_roi == IF min_arg = None THEN 1 ELSE min_arg[1]
        labels == measure_label(m)
        rprops == regionprops(labels)
        sel == SelectSeq(rprops,
                   LAMBDA roi : area_selected(roi.area, min_roi, max_roi))
        rois_label == [i \in 1 .. Len(sel) |-> sel[i].label]
        rois_bbox == [i \in 1 .. Len(sel) |-> sel[i].bbox]
        out == keep_selected(labels, rois_label)
        labelled == zip_unknown(rois_label)
        n == Len(labelled)
        \* np.concatenate of the labels and the boxes: an array of strings
        cat == [i \in 1 .. n |->
                   <<unicode(labelled[i][1]), labelled[i][2],
                     unicode(rois_bbox[i][1]), unicode(rois_bbox[i][2]),
                     unicode(rois_bbox[i][3]), unicode(rois_bbox[i][4])>>]
        \* astype: label to str, the four bounds to int; labelID is left
        typed == astype(DataFrame(ColumnNames, n,
                   <<[i \in 1 .. n |-> cat[i][1]],
                     [i \in 1 .. n |-> cat[i][2]],
                     [i \in 1 .. n |-> cat[i][3]],
                     [i \in 1 .. n |-> cat[i][4]],
                     [i \in 1 .. n |-> cat[i][5]],
                     [i \in 1 .. n |-> cat[i][6]]>>))
        table ==
            IF n > 0
            THEN [typed EXCEPT
                    !.max_y = [i \in 1 .. n |-> compensate_half_open(typed.max_y[i])],
                    !.max_x = [i \in 1 .. n |-> compensate_half_open(typed.max_x[i])]]
            ELSE empty_rois
    IN  [im_rois |-> out, rois |-> table]

---------------------------------------------------------------------------
(* rois_to_imblobs *)

\* Python's `a and b` on two strings: a when a is empty, b otherwise
py_and(a, b) == IF a = "" THEN a ELSE b

\* line 856: ('min_y' and 'min_x' and 'max_y' and 'max_x') in rois
column_test(t) ==
    py_and(py_and(py_and("min_y", "min_x"), "max_y"), "max_x")
        \in Range(t.columns)

\* a faulty variant of slice_stop: the stop of the slice is the bound itself
slice_stop_exclusive(v) == v

\* line 863: the slice stops at max + 1
slice_stop(v) == v + 1

\* im_blobs[min_y:max_y+1, min_x:max_x+1] = 1, for bounds >= 0
paint(c, b) ==
    Array(c.h, c.w,
          [p \in DOMAIN c.a |->
              IF /\ b[1] <= p[1] /\ p[1] < slice_stop(b[3])
                 /\ b[2] <= p[2] /\ p[2] < slice_stop(b[4])
              THEN 1 ELSE c.a[p]])

\* a faulty variant of paint_rows: the loop left after its first row
paint_first_row(c, t, i) == IF i > t.index THEN c ELSE paint(c, Box(t, i))

\* the loop of lines 862-863 from row i on
RECURSIVE paint_rows(_, _, _)
paint_rows(c, t, i) ==
    IF i > t.index THEN c ELSE paint_rows(paint(c, Box(t, i)), t, i + 1)

\* canvas is the caller's array after the call (it is written in place),
\* im_blobs the array returned (astype makes a new one)
rois_to_imblobs(c, t) ==
    IF t.type # "DataFrame"
    THEN [err |-> "TypeError: Rois must be of type pandas DataFrame",
          canvas |-> c, im_blobs |-> NoArray]
    ELSE IF ~ column_test(t)
    THEN [err |-> "TypeError: Array must be a Pandas DataFrame with column names",
          canvas |-> c, im_blobs |-> NoArray]
    ELSE IF ~ (BboxColumns \subseteq Range(t.columns))
    THEN [err |-> "KeyError", canvas |-> c, im_blobs |-> NoArray]
    ELSE [err |-> "", canvas |-> paint_rows(c, t, 1),
          im_blobs |-> paint_rows(c, t, 1)]

---------------------------------------------------------------------------
(* The inputs of a run *)

BinaryMasks ==
    UNION {{Array(s[1], s[2], f) : f \in [Pix(s[1], s[2]) -> {0, 1}]} :
              s \in Shapes(MaxMaskArea)}

\* an area bound: None or a number of pixels
RoiArgs == {None} \cup {<<v>> : v \in 1 .. MaxRoi}

\* the boxes (min_y, min_x, max_y, max_x) inside an h x w canvas
Boxes(h, w) ==
    {b \in (0 .. h - 1) \X (0 .. w - 1) \X (0 .. h - 1) \X (0 .. w - 1) :
        b[1] <= b[3] /\ b[2] <= b[4]}

BoxLists(h, w) == UNION {[1 .. n -> Boxes(h, w)] : n \in 0 .. MaxRows}

\* the table of the boxes bs that has the columns `present`
Frame(bs, present) ==
    LET n == Len(bs)
        column(name, values) == IF name \in present THEN values ELSE <<>>
        columns == SelectSeq(ColumnNames, LAMBDA c : c \in present)
    IN  [DataFrame(columns, n,
            <<column("labelID", [i \in 1 .. n |-> unicode(i)]),
              column("label", [i \in 1 .. n |-> "unknown"]),
              column("min_y", [i \in 1 .. n |-> bs[i][1]]),
              column("min_x", [i \in 1 .. n |-> bs[i][2]]),
              column("max_y", [i \in 1 .. n |-> bs[i][3]]),
              column("max_x", [i \in 1 .. n |-> bs[i][4]])>>)
         EXCEPT !.dtypes = [i \in 1 .. Len(columns) |->
                               IF columns[i] \in BboxColumns THEN "int64"
                               ELSE "object"]]

\* the 0/1 mask of a labelled image: pixel > 0
binarize(m) == greater(m, 0, 1)

\* the tables a caller passes with a canvas of shape s: DataFrames with
\* the four bounding-box columns, DataFrames that lack some of them, and
\* lists, which are not DataFrames
FullFrames(s) == {Frame(bs, Range(ColumnNames)) : bs \in BoxLists(s[1], s[2])}

PartFrames(s) ==
    {Frame(bs, {"labelID", "label"} \cup sub) :
        bs \in {l \in BoxLists(s[1], s[2]) : Len(l) <= 1},
        sub \in (SUBSET BboxColumns) \ {BboxColumns}}

Lists(s) ==
    {[Frame(bs, Range(ColumnNames)) EXCEPT !.type = "list"] :
        bs \in {l \in BoxLists(s[1], s[2]) : Len(l) <= 1}}

---------------------------------------------------------------------------
(* The calls.  A run starts from the caller's input and calls the          *)
(* functions one after the other; im is the argument of create_mask only,  *)
(* mode and path stay with the mask that create_mask made.                 *)

NoCall ==
    /\ op = "none" /\ mode = "" /\ kwargs = <<>> /\ params = <<>> /\ path = ""
    /\ im_rois = NoArray /\ im_blobs = NoArray
    /\ err = "" /\ src = "" /\ rois0 = <<>>

\* the caller has a matrix
InitMask ==
    /\ NoCall
    /\ \/ im \in Matrices \cup {Scenario} /\ scale = 1
       \/ im \in Normalised /\ scale = 10
    /\ im_bin = NoArray /\ rois = <<>> /\ canvas = NoArray

\* the caller has a binary mask
InitRois ==
    /\ NoCall
    /\ im_bin \in BinaryMasks
    /\ im = NoArray /\ rois = <<>> /\ canvas = NoArray /\ scale = 1

\* the caller has an all-zero canvas and a table of boxes inside it
InitBlobs ==
    /\ NoCall
    /\ \E s \in Shapes(MaxCanvasArea) :
        /\ canvas = zeros(s[1], s[2])
        /\ rois \in FullFrames(s) \cup PartFrames(s) \cup Lists(s)
    /\ im = NoArray /\ im_bin = NoArray /\ scale = 1

\* the call create_mask(im, mode_bin = m, **kw) returns or raises
CreateMask(m, kw) ==
    \E out \in create_mask(im, m, kw, scale) :
        /\ op' = "create_mask" /\ mode' = m /\ kwargs' = kw
        /\ params' = out.used /\ path' = out.path
        /\ im_bin' = out.im_out /\ err' = out.err
        /\ UNCHANGED <<scale, im, im_rois, rois, canvas, im_blobs, src, rois0>>

CreateMaskAbsolute ==
    /\ op = "none" /\ im # NoArray
    /\ \E bin_h \in Vals, bin_l \in Vals :
        CreateMask("absolute", <<<<"bin_h", bin_h>>, <<"bin_l", bin_l>>>>)

\* the thresholds of the hysteresis scenario
CreateMaskScenario ==
    /\ op = "none" /\ im = Scenario
    /\ \E bin_l \in {2, 4} :
        CreateMask("absolute", <<<<"bin_h", 5>>, <<"bin_l", bin_l>>>>)

\* absolute mode on a normalised matrix, a threshold or both left to their
\* default
CreateMaskAbsoluteDefault ==
    /\ op = "none" /\ im # NoArray /\ scale = 10
    /\ \/ CreateMask("absolute", <<>>)
       \/ \E bin_h \in {2, 7} : CreateMask("absolute", <<<<"bin_h", bin_h>>>>)
       \/ \E bin_l \in {2, 3} : CreateMask("absolute", <<<<"bin_l", bin_l>>>>)

CreateMaskRelative ==
    /\ op = "none" /\ im # NoArray
    /\ \E bin_std \in (0 .. MaxStd) \cup {6}, per2 \in 0 .. 2 :
        CreateMask("relative", <<<<"bin_std", bin_std>>, <<"bin_per", per2>>>>)

\* a mode_bin that is neither 'relative' nor 'absolute'
CreateMaskOtherMode ==
    /\ op = "none" /\ im # NoArray
    /\ \E m \in {"Relative", "abs", "binary"} :
        \E kw \in {<<>>, <<<<"bin_h", 1>>, <<"bin_l", 0>>>>} : CreateMask(m, kw)

\* select_rois(m, min_arg, max_arg) returns
SelectRoisReturns(m, min_arg, max_arg, from, held) ==
    LET out == select_rois(m, min_arg, max_arg)
    IN  /\ op' = "select_rois" /\ params' = <<min_arg, max_arg>>
        /\ kwargs' = <<>> /\ scale' = 1
        /\ im' = NoArray /\ im_bin' = m
        /\ im_rois' = out.im_rois /\ rois' = out.rois
        /\ canvas' = NoArray /\ im_blobs' = NoArray /\ err' = ""
        /\ src' = from /\ rois0' = held

\* select_rois on a binary mask the caller made
SelectRoisCaller ==
    /\ op = "none" /\ im_bin # NoArray
    /\ \E min_arg \in RoiArgs, max_arg \in RoiArgs :
        SelectRoisReturns(im_bin, min_arg, max_arg, "caller", <<>>)
    /\ UNCHANGED <<mode, path>>

\* select_rois(im_bin) on the mask create_mask returned
SelectRoisCreated ==
    /\ op = "create_mask" /\ err = ""
    /\ SelectRoisReturns(im_bin, None, None, "create_mask", <<>>)
    /\ UNCHANGED <<mode, path>>

\* select_rois again, on the mask of its own labelled image, same bounds
SelectRoisAgain ==
    /\ op = "select_rois" /\ src = "caller"
    /\ SelectRoisReturns(binarize(im_rois), params[1], params[2], "im_rois",
                         rois)
    /\ UNCHANGED <<mode, path>>

\* rois_to_imblobs(c, t) returns or raises
RoisToImblobsReturns(c, t) ==
    LET out == rois_to_imblobs(c, t)
    IN  /\ op' = "rois_to_imblobs" /\ params' = <<>>
        /\ kwargs' = <<>> /\ scale' = 1
        /\ mode' = "" /\ path' = ""
        /\ im' = NoArray /\ im_bin' = NoArray /\ im_rois' = NoArray
        /\ rois' = t /\ canvas' = out.canvas /\ im_blobs' = out.im_blobs
        /\ err' = out.err /\ src' = "" /\ rois0' = <<>>

\* rois_to_imblobs on the canvas and the table the caller made
RoisToImblobsCaller ==
    /\ op = "none" /\ canvas # NoArray
    /\ RoisToImblobsReturns(canvas, rois)

\* rois_to_imblobs on an all-zero canvas and the table select_rois returned
RoisToImblobsSelected ==
    /\ op = "select_rois" /\ src = "caller"
    /\ RoisToImblobsReturns(zeros(im_rois.h, im_rois.w), rois)

\* select_rois on the array rois_to_imblobs returned
SelectRoisBlobs ==
    /\ op = "rois_to_imblobs" /\ err = ""
    /\ \E min_arg \in RoiArgs, max_arg \in RoiArgs :
        SelectRoisReturns(im_blobs, min_arg, max_arg, "im_blobs", rois)
    /\ UNCHANGED <<mode, path>>

\* create_mask on a matrix, then select_rois on its mask
NextMask ==
    \/ CreateMaskAbsolute
    \/ CreateMaskScenario
    \/ CreateMaskAbsoluteDefault
    \/ CreateMaskRelative
    \/ CreateMaskOtherMode
    \/ SelectRoisCreated

SpecMask == InitMask /\ [][NextMask]_vars

\* create_mask in absolute mode only
NextAbsolute ==
    \/ CreateMaskAbsolute
    \/ CreateMaskScenario
    \/ CreateMaskAbsoluteDefault

SpecAbsolute == InitMask /\ [][NextAbsolute]_vars

\* select_rois on a mask, then again on its own output, or rois_to_imblobs
\* on its table
NextRois ==
    \/ SelectRoisCaller
    \/ SelectRoisAgain
    \/ RoisToImblobsSelected

SpecRois == InitRois /\ [][NextRois]_vars

\* rois_to_imblobs on a table, then select_rois on the painted array
NextBlobs ==
    \/ RoisToImblobsCaller
    \/ SelectRoisBlobs

SpecBlobs == InitBlobs /\ [][NextBlobs]_vars

---------------------------------------------------------------------------
(* Properties of create_mask *)

\* the high and the low threshold of the call, as fractions <<num, den>>
High ==
    IF mode = "absolute" THEN <<params[1], 1>>
    ELSE <<h_th4(im, params[1]), 4>>

Low ==
    IF mode = "absolute" THEN <<params[2], 1>>
    ELSE <<l_th8(im, params[1], params[2]), 8>>

\* create_mask returned after it thresholded the matrix
Thresholded ==
    /\ op = "create_mask" /\ err = "" /\ path = "thresholds"
    /\ mode = "relative" => positive(im) # {}

Area(m) == Cardinality({p \in DOMAIN m.a : m.a[p] # 0})

\* C1: in both modes, for every matrix and every threshold pair, a
\* connected component of the extended mask (pixels > low) is kept in the
\* mask create_mask returns if and only if it holds a seed pixel (> high).
C1_KeptIffSeed ==
    Thresholded =>
        LET extended == greater(im, Low[1], Low[2])
            seed == greater(im, High[1], High[2])
        IN  \A C \in Components(extended) :
                LET has_seed == \E p \in C : seed.a[p] = 1
                IN  /\ (\A p \in C : im_bin.a[p] = 1) <=> has_seed
                    /\ (\E p \in C : im_bin.a[p] = 1) <=> has_seed

\* p and q touch by a side or a corner
King(p, q) == p # q /\ p[1] - q[1] \in -1 .. 1 /\ p[2] - q[2] \in -1 .. 1

\* the pixels of W joined to a pixel of R by a path of touching pixels of W
RECURSIVE Joined(_, _)
Joined(R, W) ==
    LET N == {q \in W \ R : \E p \in R : King(p, q)}
    IN  IF N = {} THEN R ELSE Joined(R \cup N, W)

\* C2: for a matrix with no negative entry and absolute thresholds
\* 0 <= low <= high, a pixel of the mask is 1 exactly when its value is
\* > low and a path of 8-neighbours, all > low, joins it to a pixel > high;
\* every other pixel is 0.  For the 5x5 matrix with (2,2) = 10 and
\* (2,3) = 3, high 5 and low 2 give area 2, high 5 and low 4 give area 1.
C2_AbsoluteMask ==
    (/\ op = "create_mask" /\ mode = "absolute"
     /\ \A p \in DOMAIN im.a : im.a[p] >= 0
     /\ 0 <= params[2] /\ params[2] <= params[1])
    =>
        LET W == {p \in DOMAIN im.a : im.a[p] > params[2]}
            S == {p \in DOMAIN im.a : im.a[p] > params[1]}
        IN  /\ err = ""
            /\ DOMAIN im_bin.a = DOMAIN im.a
            /\ \A p \in DOMAIN im.a :
                   im_bin.a[p] = IF p \in Joined(S, W) THEN 1 ELSE 0
            /\ (im = Scenario /\ params = <<5, 2>>) => Area(im_bin) = 2
            /\ (im = Scenario /\ params = <<5, 4>>) => Area(im_bin) = 1

\* the scenario with low 2: the seed and its weak neighbour are retained
C2_Witness ==
    /\ op = "create_mask" /\ mode = "absolute"
    /\ im = Scenario /\ params = <<5, 2>>
    /\ im_bin.a[<<2, 2>>] = 1 /\ im_bin.a[<<2, 3>>] = 1 /\ Area(im_bin) = 2

---------------------------------------------------------------------------
(* Properties of select_rois *)

\* the area range of the call, with the defaults for None
MinRoi == IF params[1] = None THEN 1 ELSE params[1][1]

MaxRoiOf == IF params[2] = None THEN im_bin.h * im_bin.w ELSE params[2][1]

\* the rows of the table that stand for the component C of im_bin: their
\* labelID is the label of C and their box is the bounding box of C
RowsOf(C) ==
    {i \in 1 .. rois.index :
        /\ \A p \in C : astype_int(rois.labelID[i]) = measure_label(im_bin).a[p]
        /\ Box(rois, i) = <<SetMin({p[1] : p \in C}), SetMin({p[2] : p \in C}),
                            SetMax({p[1] : p \in C}), SetMax({p[2] : p \in C})>>}

\* C3: select_rois puts a connected component in the table it returns, and
\* keeps its pixels in the labelled image, if and only if its number of
\* pixels a satisfies min_roi <= a <= max_roi, both bounds included; no
\* component with an area outside the range is in the table or the image.
C3_AreaRange ==
    op = "select_rois" =>
        LET cs == Components(im_bin)
            inside(C) == MinRoi <= Cardinality(C) /\ Cardinality(C) <= MaxRoiOf
        IN  /\ \A C \in cs :
                /\ inside(C) => Cardinality(RowsOf(C)) = 1
                /\ ~ inside(C) => RowsOf(C) = {}
                /\ \A p \in C : (im_rois.a[p] # 0) <=> inside(C)
            /\ rois.index = Cardinality({C \in cs : inside(C)})
            /\ \A p \in DOMAIN im_bin.a : im_bin.a[p] = 0 => im_rois.a[p] = 0

\* a component of exactly min_roi pixels and one of exactly max_roi pixels
\* are retained while another one is dropped
C3_Witness ==
    /\ op = "select_rois" /\ params[1] # None /\ params[2] # None
    /\ \E C, D, E \in Components(im_bin) :
        /\ Cardinality(C) = MinRoi /\ RowsOf(C) # {}
        /\ Cardinality(D) = MaxRoiOf /\ RowsOf(D) # {}
        /\ RowsOf(E) = {}
        /\ \A p \in E : im_rois.a[p] = 0

\* C4: every row of the table select_rois returns on an H x W mask has
\* min_y <= max_y, min_x <= max_x, 0 <= min_y, max_y <= H - 1, 0 <= min_x,
\* max_x <= W - 1, max_y and max_x being the last row and the last column
\* that hold a pixel of the component.
C4_BoxInside ==
    op = "select_rois" =>
        \A i \in 1 .. rois.index :
            LET C == {p \in DOMAIN im_rois.a :
                         im_rois.a[p] = astype_int(rois.labelID[i])}
            IN  /\ rois.min_y[i] <= rois.max_y[i]
                /\ rois.min_x[i] <= rois.max_x[i]
                /\ 0 <= rois.min_y[i] /\ rois.max_y[i] <= im_bin.h - 1
                /\ 0 <= rois.min_x[i] /\ rois.max_x[i] <= im_bin.w - 1
                /\ C # {}
                /\ rois.max_y[i] = SetMax({p[1] : p \in C})
                /\ rois.max_x[i] = SetMax({p[2] : p \in C})

\* a region that reaches the last row and the last column of the mask
C4_Witness ==
    /\ op = "select_rois" /\ rois.index >= 1
    /\ \E i \in 1 .. rois.index :
        /\ rois.max_y[i] = im_bin.h - 1 /\ rois.max_x[i] = im_bin.w - 1
        /\ rois.min_y[i] < rois.max_y[i]

\* the boxes of a table, and two boxes that overlap or touch (by a side
\* or a corner)
BoxSet(t) == {Box(t, i) : i \in 1 .. t.index}

Touching(b, c) ==
    /\ b[1] <= c[3] + 1 /\ c[1] <= b[3] + 1
    /\ b[2] <= c[4] + 1 /\ c[2] <= b[4] + 1

\* no two rows of the table hold boxes that overlap or touch
Separated(t) ==
    \A i, j \in 1 .. t.index : i # j => ~ Touching(Box(t, i), Box(t, j))

\* select_rois(min_roi = 1) has run on the array rois_to_imblobs painted
\* from the table rois0
RoundTrip ==
    /\ op = "select_rois" /\ src = "im_blobs"
    /\ params = <<<<1>>, None>>

\* C5 as stated: for any table whose boxes lie inside the canvas,
\* rois_to_imblobs on an all-zero canvas followed by select_rois(min_roi=1)
\* returns the original bounding boxes, one recovered box per original
\* region.
C5_RoundTripAnyTable ==
    RoundTrip =>
        /\ rois.index = rois0.index
        /\ BoxSet(rois) = BoxSet(rois0)

\* C5, amended: the same for a table whose boxes lie inside the canvas and
\* of which no two overlap or touch, even by a corner.
C5_RoundTripSeparated ==
    (RoundTrip /\ Separated(rois0)) =>
        /\ rois.index = rois0.index
        /\ BoxSet(rois) = BoxSet(rois0)
        /\ Cardinality(BoxSet(rois)) = rois.index

\* two separated boxes, one of them more than one pixel, both recovered
C5_Witness ==
    /\ RoundTrip /\ Separated(rois0)
    /\ rois0.index = 2 /\ rois.index = 2
    /\ BoxSet(rois) = BoxSet(rois0)
    /\ \E b \in BoxSet(rois0) : b[1] < b[3] \/ b[2] < b[4]

\* select_rois has run again on the 0/1 mask of its own labelled image,
\* with the same bounds; rois0 is the table of the first run
RunAgain == op = "select_rois" /\ src = "im_rois"

\* C6 as stated: the second run returns a table identical to the first:
\* same rows, same labelID values, same bounding boxes.
C6_SameTable == RunAgain => rois = rois0

\* C6, amended: the second run returns the same number of rows, with the
\* same label and the same bounding box in every row, in the same order;
\* its labelIDs are 1, 2, ... in row order, whatever they were in the
\* first table.
C6_SameBoxes ==
    RunAgain =>
        /\ rois.index = rois0.index
        /\ rois.columns = rois0.columns
        /\ \A i \in 1 .. rois.index :
            /\ Box(rois, i) = Box(rois0, i)
            /\ rois.label[i] = rois0.label[i]
            /\ rois.labelID[i] = unicode(i)

\* the first run dropped the first component, so that the region it kept
\* is labelled 2 in the first table and 1 in the second
C6_Witness ==
    /\ RunAgain /\ rois.index >= 1
    /\ rois0.labelID[1] = unicode(2) /\ rois.labelID[1] = unicode(1)
    /\ Box(rois, 1) = Box(rois0, 1)

---------------------------------------------------------------------------
(* Degenerate matrices in relative mode *)

\* C7: for an all-zero matrix of any shape, create_mask in relative mode
\* returns an all-zero mask of the same shape without computing
\* thresholds, and select_rois on that mask returns a table with no row.
C7_AllZero ==
    /\ (op = "create_mask" /\ mode = "relative" /\ ~ any(im)) =>
          /\ err = "" /\ path = "zeros"
          /\ im_bin = zeros(im.h, im.w)
    /\ (op = "select_rois" /\ src = "create_mask" /\ mode = "relative"
           /\ path = "zeros") =>
          /\ ~ any(im_bin)
          /\ rois.index = 0
          /\ \A c \in Range(ColumnNames) : rois[c] = <<>>

\* select_rois has returned an empty table for the all-zero mask of a
\* matrix of more than one row and more than one column
C7_Witness ==
    /\ op = "select_rois" /\ src = "create_mask" /\ mode = "relative"
    /\ path = "zeros" /\ im_bin.h > 1 /\ im_bin.w > 1
    /\ rois.index = 0

\* C8: for every matrix with no strictly positive value (negative entries
\* included), create_mask in relative mode takes the short-circuit path:
\* it returns the all-zero mask of the same shape and never attempts the
\* percentile computation over the empty set of positive values.
C8_NoPositiveShortCircuit ==
    (op = "create_mask" /\ mode = "relative" /\ positive(im) = {}) =>
        /\ err = "" /\ path = "zeros"
        /\ im_bin = zeros(im.h, im.w)

---------------------------------------------------------------------------
(* Properties of rois_to_imblobs *)

\* C9: given an all-zero canvas and a table with boxes inside the canvas,
\* rois_to_imblobs returns a matrix of the canvas shape in which a pixel
\* (y, x) is 1 if and only if min_y <= y <= max_y and min_x <= x <= max_x
\* for at least one row of the table, and 0 otherwise.
C9_PaintedBoxes ==
    (op = "rois_to_imblobs" /\ err = "") =>
        /\ im_blobs.h = canvas.h /\ im_blobs.w = canvas.w
        /\ DOMAIN im_blobs.a = Pix(canvas.h, canvas.w)
        /\ \A p \in DOMAIN im_blobs.a :
            im_blobs.a[p] =
                IF \E i \in 1 .. rois.index :
                       /\ rois.min_y[i] <= p[1] /\ p[1] <= rois.max_y[i]
                       /\ rois.min_x[i] <= p[2] /\ p[2] <= rois.max_x[i]
                THEN 1 ELSE 0

\* two boxes that overlap are painted and a pixel outside both is left 0
C9_Witness ==
    /\ op = "rois_to_imblobs" /\ err = "" /\ rois.index = 2
    /\ Box(rois, 1) # Box(rois, 2)
    /\ \E p \in DOMAIN im_blobs.a :
        /\ \A i \in 1 .. 2 :
            /\ rois.min_y[i] <= p[1] /\ p[1] <= rois.max_y[i]
            /\ rois.min_x[i] <= p[2] /\ p[2] <= rois.max_x[i]
        /\ im_blobs.a[p] = 1
    /\ \E p \in DOMAIN im_blobs.a : im_blobs.a[p] = 0

\* C10: for every table that lacks at least one of the columns min_y,
\* min_x, max_y, max_x, rois_to_imblobs is rejected by its input-format
\* check (the TypeError of the column test), before any column is selected
\* and before any pixel of the canvas is written.
C10_MissingColumnRejected ==
    (/\ op = "rois_to_imblobs" /\ rois.type = "DataFrame"
     /\ ~ (BboxColumns \subseteq Range(rois.columns)))
    =>
        /\ err = "TypeError: Array must be a Pandas DataFrame with column names"
        /\ ~ any(canvas)

---------------------------------------------------------------------------
(* Properties of create_mask: the mode and the defaults *)

\* C11: create_mask called with a mode_bin that is neither 'relative' nor
\* 'absolute' raises to its caller at that call: it returns no mask and it
\* does not threshold the matrix as either mode would.
C11_OtherModeRaises ==
    (op = "create_mask" /\ mode \notin {"relative", "absolute"}) =>
        /\ err # ""
        /\ im_bin = NoArray
        /\ path = ""

\* an unknown mode on a matrix that both modes would have given a mask for
C11_Witness ==
    /\ op = "create_mask" /\ mode = "abs" /\ err = "UnboundLocalError"
    /\ kwargs # <<>>
    /\ \E p \in DOMAIN im.a : im.a[p] > 1

\* the names of the keyword arguments the caller supplied
supplied == {kwargs[i][1] : i \in DOMAIN kwargs}

\* C14: in absolute mode, when the caller supplies neither bin_h nor bin_l,
\* the mask is the one of the thresholds high 0.7 and low 0.2; when the
\* caller supplies both, the mask is the one of the supplied thresholds.
C14_AbsoluteDefaults ==
    (op = "create_mask" /\ mode = "absolute") =>
        /\ supplied = {} =>
              im_bin = _double_threshold_abs(im, tenths(7, scale),
                                             tenths(2, scale)).im_out
        /\ supplied = {"bin_h", "bin_l"} =>
              im_bin = _double_threshold_abs(im, pop(kwargs, "bin_h", 0),
                                             pop(kwargs, "bin_l", 0)).im_out

---------------------------------------------------------------------------
(* Properties of the arguments *)

\* C12: no operation modifies its array argument: when create_mask(im),
\* select_rois(im_bin) and rois_to_imblobs(im_blobs, rois) return, the
\* caller's im, im_bin and im_blobs hold the values they held before the
\* call.
C12_ArgumentsUnchanged ==
    [][/\ op' = "create_mask" => im' = im
       /\ (op' = "select_rois" /\ src' \in {"caller", "create_mask"}) =>
              im_bin' = im_bin
       /\ (op' = "select_rois" /\ src' = "im_blobs") => im_bin' = im_blobs
       /\ (op = "none" /\ op' = "rois_to_imblobs") => canvas' = canvas]_vars

---------------------------------------------------------------------------
(* Properties of the table of select_rois *)

\* the dtype of each column of a table of select_rois that has rows
Schema == <<"object", "object", "int64", "int64", "int64", "int64">>

\* C13: the table select_rois returns has exactly the columns labelID,
\* label, min_y, min_x, max_y, max_x, in that order and with the same
\* column types, whether it has no row or at least one row.
C13_SameSchema ==
    op = "select_rois" =>
        /\ rois.type = "DataFrame"
        /\ rois.columns = ColumnNames
        /\ rois.dtypes = Schema

\* a mask with a region, none selected: the table has no row
C13_Witness ==
    /\ op = "select_rois" /\ any(im_bin) /\ rois.index = 0
    /\ rois.dtypes = Schema


\* the component C of the mask has an area in the range of the call
Retained(C) == MinRoi <= Cardinality(C) /\ Cardinality(C) <= MaxRoiOf

\* C15: with min_roi and max_roi both unset, select_rois retains every
\* connected component: the labelled image is non-zero exactly where the
\* mask is non-zero, and the table has one row per component of the mask.
C15_DefaultsKeepAll ==
    (op = "select_rois" /\ params = <<None, None>>) =>
        /\ \A p \in DOMAIN im_bin.a : (im_rois.a[p] # 0) <=> (im_bin.a[p] # 0)
        /\ rois.index = Cardinality(Components(im_bin))
        /\ \A C \in Components(im_bin) : Cardinality(RowsOf(C)) = 1

\* unset bounds on a mask of two components, one larger than the number of
\* rows of the mask and one of a single pixel
C15_Witness ==
    /\ op = "select_rois" /\ params = <<None, None>> /\ rois.index = 2
    /\ \E C, D \in Components(im_bin) :
        /\ Cardinality(C) > im_bin.h
        /\ Cardinality(D) = 1

\* C16: the labelled image select_rois returns equals the labelling of the
\* mask on every pixel of a retained component (the component ids are not
\* renumbered) and is 0 on every other pixel, the pixels of the removed
\* components included.
C16_LabelsKept ==
    op = "select_rois" =>
        LET labels == measure_label(im_bin)
        IN  /\ DOMAIN im_rois.a = DOMAIN im_bin.a
            /\ \A p \in DOMAIN im_bin.a :
                im_rois.a[p] =
                    IF im_bin.a[p] # 0 /\ Retained(ComponentOf(im_bin, p))
                    THEN labels.a[p] ELSE 0

\* the first component is removed and a later one is retained with its id
C16_Witness ==
    /\ op = "select_rois"
    /\ \E p \in DOMAIN im_bin.a :
        im_bin.a[p] # 0 /\ measure_label(im_bin).a[p] = 1 /\ im_rois.a[p] = 0
    /\ \E p \in DOMAIN im_rois.a : im_rois.a[p] = 2

\* the integer a labelID reads as
IdOf(i) == astype_int(rois.labelID[i])

\* C17: the table has exactly one row per retained component, the rows are
\* in increasing order of the component id, no two rows have the same
\* labelID, and the label of every row is 'unknown'.
C17_OneRowPerRegion ==
    op = "select_rois" =>
        LET labels == measure_label(im_bin)
            kept == {C \in Components(im_bin) : Retained(C)}
        IN  /\ rois.index = Cardinality(kept)
            /\ \A C \in kept :
                Cardinality({i \in 1 .. rois.index :
                                \A p \in C : IdOf(i) = labels.a[p]}) = 1
            /\ \A i, j \in 1 .. rois.index : i < j => IdOf(i) < IdOf(j)
            /\ \A i, j \in 1 .. rois.index :
                i # j => rois.labelID[i] # rois.labelID[j]
            /\ \A i \in 1 .. rois.index : rois.label[i] = "unknown"

\* two components are retained and the one between them is removed
C17_Witness ==
    /\ op = "select_rois" /\ rois.index = 2
    /\ IdOf(1) = 1 /\ IdOf(2) = 3
    /\ rois.label = <<"unknown", "unknown">>

\* pixel == value in Python, for a value of a column of the dtype given: a
\* number is never equal to a str
py_eq(pixel, value, dtype) == dtype = "int64" /\ pixel = value

\* C18: in every row, labelID is an integer equal to the component id that
\* marks the region's pixels in the labelled image: the pixels equal to
\* the row's labelID are the region, with the bounding box of the row.
C18_LabelIDMarksPixels ==
    op = "select_rois" =>
        \A i \in 1 .. rois.index :
            LET region == {p \in DOMAIN im_rois.a :
                              py_eq(im_rois.a[p], rois.labelID[i],
                                    rois.dtypes[1])}
            IN  /\ region # {}
                /\ Box(rois, i) =
                     <<SetMin({p[1] : p \in region}), SetMin({p[2] : p \in region}),
                       SetMax({p[1] : p \in region}), SetMax({p[2] : p \in region})>>

---------------------------------------------------------------------------
(* Properties of the absolute double threshold *)

\* the mask of the matrix of the call with its high threshold and the low
\* threshold low
MaskWithLow(low) == _double_threshold_abs(im, params[1], low).im_out

\* a call in absolute mode with 0 <= high and low <= high
LowBelowHigh ==
    /\ op = "create_mask" /\ mode = "absolute" /\ err = ""
    /\ 0 <= params[1] /\ params[2] <= params[1]

\* C19: for every matrix, every high >= 0 and every low1 <= low2 <= high,
\* the mask of (high, low2) is contained in the mask of (high, low1); a
\* mask holds every pixel > high and only pixels > its own low threshold.
\* Here low2 is the low threshold of the call and low1 every lower one
\* (with low1 = low2 the two masks are those of the same call).
C19_LowMonotone ==
    LowBelowHigh =>
        /\ \A p \in DOMAIN im.a :
            /\ im.a[p] > params[1] => im_bin.a[p] = 1
            /\ im_bin.a[p] = 1 => im.a[p] > params[2]
        /\ \A low1 \in -1 .. params[2] - 1 :
            \A p \in DOMAIN im.a :
                im_bin.a[p] = 1 => MaskWithLow(low1).a[p] = 1

\* a lower low threshold adds a pixel to a mask that holds a seed
C19_Witness ==
    /\ LowBelowHigh
    /\ Area(im_bin) > 0
    /\ \E low1 \in -1 .. params[2] : Area(MaskWithLow(low1)) > Area(im_bin)

===========================================================================
